---- MODULE Spec2Model ----
(***************************************************************************)
(* TinyG firmware: the cooperative dispatch loops of the temperature       *)
(* controller (firmware/temperature/tinyg_tc.c, _controller) and of the    *)
(* motion controller (firmware/tinyg/controller.cpp, _controller_HSM),     *)
(* and the temperature control stack (tick source, sensor filter, PID,     *)
(* PWM, heater state machine) of tinyg_tc.c.                               *)
(*                                                                         *)
(* The two firmwares run on different boards.  The variable `board` fixes  *)
(* at start-up which of them a behaviour follows; the variables of the     *)
(* other board keep their initial values.                                  *)
(*                                                                         *)
(* Numbers.  Temperatures are integers (degrees C); a division of doubles  *)
(* is the floor of the quotient.  The heater timer counts heater ticks     *)
(* (HEATER_TICK_SECONDS each), and the two timeouts are given in ticks.    *)
(* PID quantities are fixed point: pid.integral is in degree-ticks,        *)
(* pid.derivative in degrees per tick, pid.output and a duty cycle in      *)
(* 1/PID_SCALE percent.                                                    *)
(***************************************************************************)
EXTENDS Integers, Sequences, FiniteSets, TLC

VARIABLES
    board,          \* "tc" (tinyg_tc.c) or "tinyg" (controller.cpp)
    device,         \* struct Device: tick_flag, tick counters, pwm_freq
    reg,            \* timer 2 registers OCR2A (TOP) and OCR2B (duty compare)
    heater,         \* struct Heater
    pid,            \* struct PIDstruct
    sensor,         \* struct TemperatureSensor
    tc_log,         \* callbacks invoked by the last pass of _controller, in order
    tc_status,      \* status returned by each of them, in the same order
    handlers,       \* tick handlers run by the last tick_callback, in order
    cm,             \* canonical machine: machine_state
    cs,             \* controller_t: hard_reset_requested, bootloader_requested
    env,            \* what the handlers of controller.cpp read from other modules
    hsm_pc,         \* position of _controller_HSM in its dispatch list
    hsm_log,        \* functions invoked so far in the current pass, in order
    hsm_status      \* status returned by the last function invoked

tc_vars  == <<device, reg, heater, pid, sensor, tc_log, tc_status, handlers>>
hsm_vars == <<cm, cs, env, hsm_pc, hsm_log, hsm_status>>
vars     == <<board, device, reg, heater, pid, sensor, tc_log, tc_status, handlers,
              cm, cs, env, hsm_pc, hsm_log, hsm_status>>

(***************************************************************************)
(* Bounds of the model.                                                    *)
(***************************************************************************)
\* sensor.samples_per_reading (SENSOR_SAMPLES_PER_READING), scaled down
SENSOR_SAMPLES_PER_READING == 2
\* sensor.retries (SENSOR_RETRIES), scaled down
SENSOR_RETRIES == 2
\* heater.ambient_timeout in heater ticks, scaled down
HEATER_AMBIENT_TIMEOUT == 1
\* heater.regulation_timeout in heater ticks, scaled down
HEATER_REGULATION_TIMEOUT == 3
\* the timer interrupt stops once heater.regulation_timer is this far past
\* the regulation timeout
MaxTimerExcess == 1
\* the timer interrupt stops once a reading has accumulated this many samples
\* past samples_per_reading
MaxSampleExcess == 8
\* reload value of the 1 s down counter (device.tick_1sec_count), scaled down
TICK_1SEC_RELOAD == 2

\* pid_calculate() is not called once |pid.integral| would pass this
MaxIntegral == 600

MaxTimer   == HEATER_REGULATION_TIMEOUT + MaxTimerExcess
MaxSamples == SENSOR_SAMPLES_PER_READING + MaxSampleExcess

(***************************************************************************)
(* Constants of tinyg_tc.h and kinen_core.h.                               *)
(***************************************************************************)
SC_OK     == "SC_OK"
SC_EAGAIN == "SC_EAGAIN"
SC_NOOP   == "SC_NOOP"
KinenStatus == {SC_OK, SC_EAGAIN, SC_NOOP}

HEATER_OFF       == "HEATER_OFF"
HEATER_SHUTDOWN  == "HEATER_SHUTDOWN"
HEATER_HEATING   == "HEATER_HEATING"
HEATER_AT_TARGET == "HEATER_AT_TARGET"
HEATER_OK                   == "HEATER_OK"
HEATER_AMBIENT_TIMED_OUT    == "HEATER_AMBIENT_TIMED_OUT"
HEATER_REGULATION_TIMED_OUT == "HEATER_REGULATION_TIMED_OUT"

PID_OFF == "PID_OFF"
PID_ON  == "PID_ON"

SENSOR_OFF         == "SENSOR_OFF"
SENSOR_HAS_NO_DATA == "SENSOR_HAS_NO_DATA"
SENSOR_HAS_DATA    == "SENSOR_HAS_DATA"
SENSOR_SHUTDOWN    == "SENSOR_SHUTDOWN"
SENSOR_IDLE                         == "SENSOR_IDLE"
SENSOR_IS_READING                   == "SENSOR_IS_READING"
SENSOR_READING_COMPLETE             == "SENSOR_READING_COMPLETE"
SENSOR_READING_FAILED_BAD_READINGS  == "SENSOR_READING_FAILED_BAD_READINGS"
SENSOR_READING_FAILED_DISCONNECTED  == "SENSOR_READING_FAILED_DISCONNECTED"
SENSOR_READING_FAILED_NO_POWER      == "SENSOR_READING_FAILED_NO_POWER"

HEATER_AMBIENT_TEMPERATURE      == 40
HEATER_OVERHEAT_TEMPERATURE     == 300
SENSOR_VARIANCE_RANGE           == 20
SENSOR_DISCONNECTED_TEMPERATURE == 400
SENSOR_NO_POWER_TEMPERATURE     == -2
SURFACE_OF_THE_SUN              == 5505
HOTTER_THAN_THE_SUN             == 10000
ABSOLUTE_ZERO                   == -273

\* fixed point of pid.output and of a duty cycle: 1/PID_SCALE percent
PID_SCALE      == 1000
\* gains in 1/PID_GAIN_SCALE
PID_GAIN_SCALE == 100
PID_Kp         == 500
PID_Ki         == 10
PID_Kd         == 50
\* PID_DT is 1/PID_DT_INV seconds: one heater tick
PID_DT_INV     == 10
\* PID_EPSILON in 1/PID_EPSILON_SCALE degrees: one degree, so that errors of
\* whole degrees fall on both sides of it
PID_EPSILON_SCALE == 10
PID_EPSILON    == 10
PID_MAX_OUTPUT == 100 * PID_SCALE
PID_MIN_OUTPUT == 0 * PID_SCALE

F_CPU         == 16000000
PWM_PRESCALE  == 64
PWM_MIN_RES   == 20
PWM_MAX_RES   == 255
PWM_FREQUENCY == 1000
\* OCR2B value written for a duty cycle <= 0: output off
PWM_DUTY_OFF  == 255
\* OCR2B value written for a duty cycle > 100
PWM_DUTY_OVER == 0

\* reload value of the 100 ms down counter (device.tick_100ms_count)
TICK_100MS_RELOAD == 10

\* the double +inf that a division by 0.0 gives
Infinity == 2 ^ 30

(***************************************************************************)
(* Inputs.                                                                 *)
(***************************************************************************)
\* calibrated ADC samples (SAMPLE(a)): no power, ambient, two warm values
\* within the variance range of each other, the set point, disconnected
SampleSet == {-4, 30, 44, 140, 500}
\* a sensor poll reads the ADC at most 1 + retries times
Reads == [1..(SENSOR_RETRIES + 1) -> SampleSet]
\* set points the host asks for (main() asks for 140)
Setpoints == {140}
\* results an out-of-range conversion of a double to uint8_t may produce
CastOutcomes == {0, 255}

Abs(x) == IF x < 0 THEN -x ELSE x

(***************************************************************************)
(* PWM.  A state m is the record of the five structures                    *)
(* [device, reg, heater, pid, sensor].                                     *)
(***************************************************************************)
\* (uint8_t)x for a double x whose floor is x: undefined behaviour outside 0..255,
\* where `ub` is the value the build produces
cast_uint8(x, ub) == IF x >= 0 /\ x <= 255 THEN x ELSE ub

pwm_init(m) ==
    [m EXCEPT !.reg = [OCR2A |-> 0, OCR2B |-> 0], !.device.pwm_freq = 0]

pwm_set_freq(m, freq) ==
    LET f == IF freq = 0 THEN Infinity ELSE (F_CPU \div PWM_PRESCALE) \div freq
        top == IF f < PWM_MIN_RES THEN PWM_MIN_RES
               ELSE IF f >= PWM_MAX_RES THEN PWM_MAX_RES
               ELSE f
    IN  [m EXCEPT !.device.pwm_freq = f, !.reg.OCR2A = top]

\* a duty cycle setter that turns the output off above 100 percent
pwm_duty_compare_off_above_100(top, duty) ==
    IF duty <= 0 \/ duty > 100 * PID_SCALE THEN PWM_DUTY_OFF
    ELSE (top * (100 * PID_SCALE - duty)) \div (100 * PID_SCALE)

\* the OCR2B value for a duty cycle (in 1/PID_SCALE percent)
pwm_duty_compare(top, duty) ==
    IF duty <= 0 THEN PWM_DUTY_OFF
    ELSE IF duty > 100 * PID_SCALE THEN PWM_DUTY_OVER
    ELSE (top * (100 * PID_SCALE - duty)) \div (100 * PID_SCALE)

pwm_set_duty(m, duty, ub) ==
    [m EXCEPT !.reg = [OCR2B |-> pwm_duty_compare(m.reg.OCR2A, duty),
                       OCR2A |-> cast_uint8(m.device.pwm_freq, ub)]]

pwm_on(m, freq, duty, ub) == pwm_set_duty(pwm_set_freq(pwm_init(m), freq), duty, ub)

\* a pwm_off() that leaves the output at full duty
pwm_off_at_full_duty(m, ub) == pwm_on(m, 0, 100 * PID_SCALE, ub)

pwm_off(m, ub) == pwm_on(m, 0, 0, ub)

(***************************************************************************)
(* PID.                                                                    *)
(***************************************************************************)
pid_init_value ==
    [state |-> PID_ON, output |-> 0, error |-> 0, prev_error |-> 0,
     integral |-> 0, derivative |-> 0]

\* a reset that forgets the previous error
pid_reset_integral_only(m) == [m EXCEPT !.pid.integral = 0]

pid_reset(m) == [m EXCEPT !.pid.integral = 0, !.pid.prev_error = 0]

\* a saturation filter without the lower limit
pid_saturate_max_only(out) ==
    IF out > PID_MAX_OUTPUT THEN PID_MAX_OUTPUT ELSE out

\* saturation filter
pid_saturate(out) ==
    IF out > PID_MAX_OUTPUT THEN PID_MAX_OUTPUT
    ELSE IF out < PID_MIN_OUTPUT THEN PID_MIN_OUTPUT
    ELSE out

\* an integration that never stops
pid_integrates_always(error) == TRUE

\* stop integration if the error term is too small
pid_integrates(error) == Abs(error) * PID_EPSILON_SCALE > PID_EPSILON

\* the state after pid_calculate(setpoint, temperature); its value is .pid.output,
\* or 0 when the PID is off
pid_calculate(m, setpoint, temperature) ==
    IF m.pid.state = PID_OFF THEN m
    ELSE
    LET error      == setpoint - temperature
        integral   == IF pid_integrates(error) THEN m.pid.integral + error
                      ELSE m.pid.integral
        derivative == error - m.pid.prev_error
        \* Kp*error + Ki*integral*dt + Kd*derivative/dt, in 1/PID_SCALE
        raw        == (( PID_Kp * error * PID_DT_INV
                       + PID_Ki * integral
                       + PID_Kd * derivative * PID_DT_INV * PID_DT_INV )
                       * (PID_SCALE \div PID_GAIN_SCALE)) \div PID_DT_INV
    IN  [m EXCEPT !.pid.error = error, !.pid.integral = integral,
                  !.pid.derivative = derivative,
                  !.pid.output = pid_saturate(raw),
                  !.pid.prev_error = error]

pid_return(m0, m1) == IF m0.pid.state = PID_OFF THEN 0 ELSE m1.pid.output

(***************************************************************************)
(* Temperature sensor.                                                     *)
(***************************************************************************)
sensor_init_value ==
    [state |-> SENSOR_HAS_NO_DATA, code |-> SENSOR_IDLE, samples |-> 0,
     temperature |-> ABSOLUTE_ZERO, previous_temp |-> 0, accumulator |-> 0]

sensor_on(m) == m

sensor_off(m) == [m EXCEPT !.sensor.state = SENSOR_OFF]

sensor_get_temperature(m) ==
    IF m.sensor.state = SENSOR_HAS_DATA THEN m.sensor.temperature
    ELSE SURFACE_OF_THE_SUN

sensor_get_state(m) == m.sensor.state

sensor_start_temperature_reading(m) == [m EXCEPT !.sensor.samples = 0]

\* sample is within variance range
within_variance(sample, previous_temp) ==
    Abs(sample - previous_temp) < SENSOR_VARIANCE_RANGE

\* a retry loop that hands back the last sample when the retries run out
RECURSIVE sample_loop_keeps_last(_, _, _, _)
sample_loop_keeps_last(reads, previous_temp, i, k) ==
    IF within_variance(reads[k], previous_temp) \/ i = 0
    THEN <<reads[k], reads[k], k>>
    ELSE sample_loop_keeps_last(reads, previous_temp, i - 1, k + 1)

\* the retry loop of _sensor_sample: i counts down from sensor.retries, reads[k]
\* is the sample under test; the result is <<value returned, previous_temp,
\* number of ADC reads taken>>
RECURSIVE sample_loop(_, _, _, _)
sample_loop(reads, previous_temp, i, k) ==
    IF i = 0 THEN <<HOTTER_THAN_THE_SUN, previous_temp, k>>
    ELSE IF within_variance(reads[k], previous_temp) THEN <<reads[k], reads[k], k>>
    ELSE sample_loop(reads, previous_temp, i - 1, k + 1)

\* <<value returned, previous_temp, number of ADC reads taken>> of
\* _sensor_sample(ADC_CHANNEL, new_period) when the ADC delivers reads[1],
\* reads[2], ...
_sensor_sample(m, reads, new_period) ==
    IF new_period THEN <<reads[1], reads[1], 1>>
    ELSE sample_loop(reads, m.sensor.previous_temp, SENSOR_RETRIES, 1)

\* sensor.samples is an int8_t
int8(x) == ((x + 128) % 256) - 128

\* a classification without the no-power test
sensor_classify_no_power_passes(s) ==
    IF s.accumulator > SENSOR_DISCONNECTED_TEMPERATURE * s.samples
    THEN [s EXCEPT !.code = SENSOR_READING_FAILED_DISCONNECTED,
                   !.state = SENSOR_HAS_NO_DATA]
    ELSE [s EXCEPT !.code = SENSOR_READING_COMPLETE,
                   !.state = SENSOR_HAS_DATA]

\* classification of a completed reading; `acc / n > limit` is decided on the
\* exact quotient, the stored temperature is its floor
sensor_classify(s) ==
    IF s.accumulator > SENSOR_DISCONNECTED_TEMPERATURE * s.samples
    THEN [s EXCEPT !.code = SENSOR_READING_FAILED_DISCONNECTED,
                   !.state = SENSOR_HAS_NO_DATA]
    ELSE IF s.temperature < SENSOR_NO_POWER_TEMPERATURE
    THEN [s EXCEPT !.code = SENSOR_READING_FAILED_NO_POWER,
                   !.state = SENSOR_HAS_NO_DATA]
    ELSE [s EXCEPT !.code = SENSOR_READING_COMPLETE,
                   !.state = SENSOR_HAS_DATA]

sensor_callback(m, reads) ==
    IF m.sensor.state \in {SENSOR_OFF, SENSOR_SHUTDOWN} THEN m
    ELSE IF m.sensor.code = SENSOR_READING_COMPLETE THEN m
    ELSE
    LET new_period == m.sensor.samples = 0
        s0 == IF new_period
              THEN [m.sensor EXCEPT !.accumulator = 0, !.code = SENSOR_IS_READING]
              ELSE m.sensor
        r  == _sensor_sample(m, reads, new_period)
        s1 == [s0 EXCEPT !.previous_temp = r[2]]
    IN  IF r[1] > SURFACE_OF_THE_SUN
        THEN [m EXCEPT !.sensor = [s1 EXCEPT !.code = SENSOR_READING_FAILED_BAD_READINGS,
                                             !.state = SENSOR_SHUTDOWN]]
        ELSE
        LET s2 == [s1 EXCEPT !.accumulator = @ + r[1], !.samples = int8(@ + 1)]
        IN  IF s2.samples < SENSOR_SAMPLES_PER_READING THEN [m EXCEPT !.sensor = s2]
            ELSE [m EXCEPT !.sensor =
                    sensor_classify([s2 EXCEPT !.temperature =
                                        s2.accumulator \div s2.samples])]

(***************************************************************************)
(* Heater.                                                                 *)
(***************************************************************************)
heater_init_value ==
    [state |-> HEATER_OFF, code |-> HEATER_OK, temperature |-> 0, setpoint |-> 0,
     regulation_timer |-> 0]

heater_init(m) ==
    [m EXCEPT !.heater = heater_init_value, !.sensor = sensor_init_value,
              !.pid = pid_init_value]

\* a guard of heater_on() that lets a heating heater be turned on again
heater_is_at_target(m) == m.heater.state = HEATER_AT_TARGET

\* a guard of heater_on() that also refuses the shut-down heater
heater_is_on_or_shutdown(m) ==
    m.heater.state \in {HEATER_HEATING, HEATER_AT_TARGET, HEATER_SHUTDOWN}

\* heater_on() takes no action if the heater is already on
heater_is_on(m) == m.heater.state \in {HEATER_HEATING, HEATER_AT_TARGET}

heater_on(m, setpoint, ub) ==
    IF heater_is_on(m) THEN m
    ELSE LET m1 == pwm_on(pid_reset(sensor_on(m)), PWM_FREQUENCY, 0, ub)
         IN  [m1 EXCEPT !.heater.setpoint = setpoint, !.heater.state = HEATER_HEATING]

\* a heater_off() that leaves the sensor running
heater_off_keeps_sensor(m, state, code, ub) ==
    [pwm_off(m, ub) EXCEPT !.heater.state = state, !.heater.code = code]

heater_off(m, state, code, ub) ==
    LET m1 == sensor_off(pwm_off(m, ub))
    IN  [m1 EXCEPT !.heater.state = state, !.heater.code = code]

\* the two timeouts of heater_callback
ambient_timed_out(h) ==
    /\ h.temperature < HEATER_AMBIENT_TEMPERATURE
    /\ h.regulation_timer > HEATER_AMBIENT_TIMEOUT

\* a regulation timeout that does not ask for a temperature under the setpoint
regulation_timed_out_on_time_alone(h) ==
    h.regulation_timer > HEATER_REGULATION_TIMEOUT

regulation_timed_out(h) ==
    /\ h.temperature < h.setpoint
    /\ h.regulation_timer > HEATER_REGULATION_TIMEOUT

\* handle HEATER exceptions (the tail of heater_callback)
heater_exceptions(m, ub) ==
    IF m.heater.state # HEATER_HEATING THEN m
    ELSE
    LET m1 == [m EXCEPT !.heater.regulation_timer = @ + 1]
    IN  IF ambient_timed_out(m1.heater)
        THEN heater_off(m1, HEATER_SHUTDOWN, HEATER_AMBIENT_TIMED_OUT, ub)
        ELSE IF regulation_timed_out(m1.heater)
        THEN heater_off(m1, HEATER_SHUTDOWN, HEATER_REGULATION_TIMED_OUT, ub)
        ELSE m1

\* a heater poll that regulates on whatever the sensor returns, data or not
heater_callback_without_data(m, ub) ==
    IF m.heater.state \in {HEATER_OFF, HEATER_SHUTDOWN} THEN m
    ELSE
    LET m1 == sensor_start_temperature_reading(m)
        m2 == [m1 EXCEPT !.heater.temperature = sensor_get_temperature(m1)]
        m3 == pid_calculate(m2, m2.heater.setpoint, m2.heater.temperature)
        m4 == pwm_set_duty(m3, pid_return(m2, m3), ub)
    IN  heater_exceptions(m4, ub)

heater_callback(m, ub) ==
    IF m.heater.state \in {HEATER_OFF, HEATER_SHUTDOWN} THEN m
    ELSE
    LET m1 == sensor_start_temperature_reading(m)
    IN  IF sensor_get_state(m1) # SENSOR_HAS_DATA THEN m1
        ELSE
        LET m2 == [m1 EXCEPT !.heater.temperature = sensor_get_temperature(m1)]
            m3 == pid_calculate(m2, m2.heater.setpoint, m2.heater.temperature)
            m4 == pwm_set_duty(m3, pid_return(m2, m3), ub)
        IN  heater_exceptions(m4, ub)

(***************************************************************************)
(* Tick source and dispatch loop of tinyg_tc.c.                            *)
(***************************************************************************)
device_init_value ==
    [tick_flag |-> FALSE, tick_100ms_count |-> TICK_100MS_RELOAD,
     tick_1sec_count |-> TICK_1SEC_RELOAD, pwm_freq |-> 0]

\* a down counter that counts two per tick
dec_uint8_by_two(c) == (c + 254) % 256

\* --count on a uint8_t
dec_uint8(c) == (c + 255) % 256

tick_10ms(m, reads) == sensor_callback(m, reads)

tick_100ms(m, ub) == heater_callback(m, ub)

tick_1sec(m) == m

\* a tick_callback() that runs the 100 ms handler ahead of the 10 ms handler
tick_callback_heater_first(m, reads, ub) ==
    IF m.device.tick_flag = FALSE
    THEN [m |-> m, status |-> SC_NOOP, handlers |-> <<>>]
    ELSE
    LET m1 == [m EXCEPT !.device.tick_flag = FALSE,
                        !.device.tick_100ms_count = dec_uint8(@)]
    IN  IF m1.device.tick_100ms_count # 0
        THEN [m |-> tick_10ms(m1, reads), status |-> SC_OK,
              handlers |-> <<"tick_10ms">>]
        ELSE
        LET m2 == tick_100ms([m1 EXCEPT !.device.tick_100ms_count = TICK_100MS_RELOAD], ub)
            m3 == tick_10ms(m2, reads)
            m4 == [m3 EXCEPT !.device.tick_1sec_count = dec_uint8(@)]
        IN  IF m4.device.tick_1sec_count # 0
            THEN [m |-> m4, status |-> SC_OK,
                  handlers |-> <<"tick_100ms", "tick_10ms">>]
            ELSE [m |-> tick_1sec([m4 EXCEPT !.device.tick_1sec_count = TICK_1SEC_RELOAD]),
                  status |-> SC_OK,
                  handlers |-> <<"tick_100ms", "tick_10ms", "tick_1sec">>]

\* [m: the state after tick_callback(), status: what it returns, handlers: the
\* tick handlers it ran]
tick_callback(m, reads, ub) ==
    IF m.device.tick_flag = FALSE
    THEN [m |-> m, status |-> SC_NOOP, handlers |-> <<>>]
    ELSE
    LET m1 == tick_10ms([m EXCEPT !.device.tick_flag = FALSE], reads)
        m2 == [m1 EXCEPT !.device.tick_100ms_count = dec_uint8(@)]
    IN  IF m2.device.tick_100ms_count # 0
        THEN [m |-> m2, status |-> SC_OK, handlers |-> <<"tick_10ms">>]
        ELSE
        LET m3 == tick_100ms([m2 EXCEPT !.device.tick_100ms_count = TICK_100MS_RELOAD], ub)
            m4 == [m3 EXCEPT !.device.tick_1sec_count = dec_uint8(@)]
        IN  IF m4.device.tick_1sec_count # 0
            THEN [m |-> m4, status |-> SC_OK,
                  handlers |-> <<"tick_10ms", "tick_100ms">>]
            ELSE [m |-> tick_1sec([m4 EXCEPT !.device.tick_1sec_count = TICK_1SEC_RELOAD]),
                  status |-> SC_OK,
                  handlers |-> <<"tick_10ms", "tick_100ms", "tick_1sec">>]

\* #define DISPATCH(func) if (func == SC_EAGAIN) return;
\* TRUE when the pass returns after a function that gave `status`
DISPATCH_tc(status) == status = SC_EAGAIN

Cur == [device |-> device, reg |-> reg, heater |-> heater, pid |-> pid,
        sensor |-> sensor]

Set(m) ==
    /\ device' = m.device
    /\ reg' = m.reg
    /\ heater' = m.heater
    /\ pid' = m.pid
    /\ sensor' = m.sensor

\* the ADC delivers the same sample on every attempt
SteadyReads == {[k \in 1..(SENSOR_RETRIES + 1) |-> v] : v \in SampleSet}

\* the vectors of ADC samples a pass in state m is run on. A pass that does not
\* sample reads nothing. A sensor poll keeps of the samples only the one it
\* accepts, or the fact that it accepted none, so that every vector of Reads
\* leads to the same state as one of SteadyReads (ReadsForCoversReads)
ReadsFor(m) ==
    IF m.device.tick_flag = FALSE
       \/ m.sensor.state \in {SENSOR_OFF, SENSOR_SHUTDOWN}
       \/ m.sensor.code = SENSOR_READING_COMPLETE
    THEN {CHOOSE reads \in SteadyReads : TRUE}
    ELSE SteadyReads

\* the conversion results that differ in what a pass in state m can do: only a
\* pass that runs tick_100ms() converts
CastsFor(m) ==
    IF m.device.tick_flag /\ m.device.tick_100ms_count = 1 THEN CastOutcomes ELSE {0}

InitTc ==
    /\ device = device_init_value
    /\ reg = [OCR2A |-> 0, OCR2B |-> 0]
    /\ heater = heater_init_value
    /\ pid = pid_init_value
    /\ sensor = sensor_init_value
    /\ tc_log = <<>>
    /\ tc_status = <<>>
    /\ handlers = <<>>

\* TIMER0_OVF_vect
TimerISR ==
    /\ board = "tc"
    /\ heater.regulation_timer < MaxTimer
    /\ sensor.samples < MaxSamples
    /\ device' = [device EXCEPT !.tick_flag = TRUE]
    /\ UNCHANGED <<board, reg, heater, pid, sensor, tc_log, tc_status, handlers>>
    /\ UNCHANGED hsm_vars

\* one pass of _controller(): kinen_callback(), then tick_callback()
Controller ==
    /\ board = "tc"
    /\ \E kinen \in KinenStatus :
         IF DISPATCH_tc(kinen)
         THEN /\ tc_log' = <<"kinen_callback">>
              /\ tc_status' = <<kinen>>
              /\ handlers' = <<>>
              /\ UNCHANGED <<device, reg, heater, pid, sensor>>
         ELSE \E reads \in ReadsFor(Cur), ub \in CastsFor(Cur) :
                LET r == tick_callback(Cur, reads, ub)
                IN  /\ Set(r.m)
                    /\ tc_log' = <<"kinen_callback", "tick_callback">>
                    /\ tc_status' = <<kinen, r.status>>
                    /\ handlers' = r.handlers
    /\ UNCHANGED board
    /\ UNCHANGED hsm_vars

\* the host turns the heater on
HeaterOn ==
    /\ board = "tc"
    /\ \E setpoint \in Setpoints, ub \in CastOutcomes :
         Set(heater_on(Cur, setpoint, ub))
    /\ UNCHANGED <<board, tc_log, tc_status, handlers>>
    /\ UNCHANGED hsm_vars

\* the host turns the heater off
HeaterOff ==
    /\ board = "tc"
    /\ \E ub \in CastOutcomes : Set(heater_off(Cur, HEATER_OFF, HEATER_OK, ub))
    /\ UNCHANGED <<board, tc_log, tc_status, handlers>>
    /\ UNCHANGED hsm_vars

\* explicit re-initialization of the heater
HeaterInit ==
    /\ board = "tc"
    /\ Set(heater_init(Cur))
    /\ UNCHANGED <<board, tc_log, tc_status, handlers>>
    /\ UNCHANGED hsm_vars

NextTc == TimerISR \/ Controller \/ HeaterOn \/ HeaterOff \/ HeaterInit

\* a pass of _controller() in which tick_callback() consumes a tick
TickPass == Controller /\ device.tick_flag /\ ~device'.tick_flag

(***************************************************************************)
(* Dispatch loop of controller.cpp.                                        *)
(***************************************************************************)
STAT_OK               == "STAT_OK"
STAT_EAGAIN           == "STAT_EAGAIN"
STAT_NOOP             == "STAT_NOOP"
STAT_EOF              == "STAT_EOF"
STAT_LIMIT_SWITCH_HIT == "STAT_LIMIT_SWITCH_HIT"
STAT_CONTROLLER_ASSERTION_FAILURE == "STAT_CONTROLLER_ASSERTION_FAILURE"
\* statuses a callback of another module may return
ExternalStatus == {STAT_OK, STAT_EAGAIN, STAT_NOOP, STAT_EOF}

MACHINE_READY    == "MACHINE_READY"
MACHINE_ALARM    == "MACHINE_ALARM"
MACHINE_SHUTDOWN == "MACHINE_SHUTDOWN"

PLANNER_BUFFER_HEADROOM == 4
XOFF_TX_LO_WATER_MARK   == 2
\* values mp_get_planner_buffers_available() may return
PlannerAvailable == {PLANNER_BUFFER_HEADROOM - 1, PLANNER_BUFFER_HEADROOM}
\* values xio_get_tx_bufcount_usart() may return
TxBufcount == {XOFF_TX_LO_WATER_MARK - 1, XOFF_TX_LO_WATER_MARK}

\* the DISPATCH list of _controller_HSM(), highest priority first
HsmList ==
    << "hw_hard_reset_handler", "hw_bootloader_handler", "_shutdown_idler",
       "_limit_switch_handler", "cm_feedhold_sequencing_callback",
       "mp_plan_hold_callback", "_system_assertions", "st_motor_power_callback",
       "sr_status_report_callback", "qr_queue_report_callback", "cm_arc_callback",
       "cm_homing_callback", "cm_jogging_callback", "cm_probe_callback",
       "_sync_to_planner", "_sync_to_tx_buffer", "set_baud_callback",
       "_command_dispatch", "_normal_idler" >>

HsmLen == Len(HsmList)

\* position of a function in the list
HsmIndex(f) == CHOOSE i \in 1..HsmLen : HsmList[i] = f

\* the list entries that are callbacks of other modules
ExternalCallbacks ==
    { "cm_feedhold_sequencing_callback", "mp_plan_hold_callback",
      "st_motor_power_callback", "sr_status_report_callback",
      "qr_queue_report_callback", "cm_arc_callback", "cm_homing_callback",
      "cm_jogging_callback", "cm_probe_callback", "set_baud_callback" }

\* a DISPATCH that also returns after a function that had nothing to do
DISPATCH_returns_on_noop(status) == status \in {STAT_EAGAIN, STAT_NOOP}

\* #define DISPATCH(func) if (func == STAT_EAGAIN) return;
\* TRUE when the pass returns after a function that gave `status`
DISPATCH(status) == status = STAT_EAGAIN

cs_init_value == [hard_reset_requested |-> FALSE, bootloader_requested |-> FALSE]

env_init_value ==
    [limit_switch_thrown |-> FALSE, memory_intact |-> TRUE,
     planner_buffers_available |-> PLANNER_BUFFER_HEADROOM,
     tx_bufcount |-> XOFF_TX_LO_WATER_MARK - 1]

InitHsm ==
    /\ cm = [machine_state |-> MACHINE_READY]
    /\ cs = cs_init_value
    /\ env = env_init_value
    /\ hsm_pc = 1
    /\ hsm_log = <<>>
    /\ hsm_status = "none"

\* the pass has invoked the function at hsm_pc, which returned `status`
Dispatched(status) ==
    /\ hsm_log' = (IF hsm_pc = 1 THEN <<>> ELSE hsm_log) \o <<HsmList[hsm_pc]>>
    /\ hsm_status' = status
    /\ hsm_pc' = IF DISPATCH(status) \/ hsm_pc = HsmLen THEN 1 ELSE hsm_pc + 1

At(f) == board = "tinyg" /\ HsmList[hsm_pc] = f

\* cm_hard_alarm(status): shut the machine down and return status
cm_hard_alarm(c, status) == [c EXCEPT !.machine_state = MACHINE_SHUTDOWN]

\* a shutdown idler that reports the shutdown without blocking the pass
_shutdown_idler_noop(c) ==
    IF c.machine_state # MACHINE_SHUTDOWN THEN STAT_OK ELSE STAT_NOOP

\* stat_t of _shutdown_idler()
_shutdown_idler(c) ==
    IF c.machine_state # MACHINE_SHUTDOWN THEN STAT_OK ELSE STAT_EAGAIN

\* stat_t of _limit_switch_handler()
_limit_switch_handler(c, e) ==
    IF c.machine_state = MACHINE_ALARM THEN STAT_NOOP
    ELSE IF e.limit_switch_thrown = FALSE THEN STAT_NOOP
    ELSE STAT_LIMIT_SWITCH_HIT

\* stat_t of _system_assertions()
_system_assertions(e) ==
    IF e.memory_intact THEN STAT_OK ELSE STAT_CONTROLLER_ASSERTION_FAILURE

\* stat_t of _sync_to_planner() when `available` planner buffers are free
_sync_to_planner(available) ==
    IF available < PLANNER_BUFFER_HEADROOM THEN STAT_EAGAIN ELSE STAT_OK

\* a TX sync that lets the pass go on with the buffer at the water mark
_sync_to_tx_buffer_above_mark(count) ==
    IF count > XOFF_TX_LO_WATER_MARK THEN STAT_EAGAIN ELSE STAT_OK

\* stat_t of _sync_to_tx_buffer() when the USB TX buffer holds `count`
_sync_to_tx_buffer(count) ==
    IF count >= XOFF_TX_LO_WATER_MARK THEN STAT_EAGAIN ELSE STAT_OK

_normal_idler == STAT_OK

\* a software reset or the boot loader restarts the firmware
Restart ==
    /\ cm' = [machine_state |-> MACHINE_READY]
    /\ cs' = cs_init_value
    /\ env' = env_init_value
    /\ hsm_pc' = 1
    /\ hsm_log' = <<>>
    /\ hsm_status' = "none"

HardResetHandler ==
    /\ At("hw_hard_reset_handler")
    /\ IF cs.hard_reset_requested THEN Restart
       ELSE Dispatched(STAT_NOOP) /\ UNCHANGED <<cm, cs, env>>
    /\ UNCHANGED board
    /\ UNCHANGED tc_vars

BootloaderHandler ==
    /\ At("hw_bootloader_handler")
    /\ IF cs.bootloader_requested THEN Restart
       ELSE Dispatched(STAT_NOOP) /\ UNCHANGED <<cm, cs, env>>
    /\ UNCHANGED board
    /\ UNCHANGED tc_vars

ShutdownIdler ==
    /\ At("_shutdown_idler")
    /\ Dispatched(_shutdown_idler(cm))
    /\ UNCHANGED <<board, cm, cs, env>>
    /\ UNCHANGED tc_vars

LimitSwitchHandler ==
    /\ At("_limit_switch_handler")
    /\ Dispatched(_limit_switch_handler(cm, env))
    /\ cm' = IF _limit_switch_handler(cm, env) = STAT_LIMIT_SWITCH_HIT
             THEN cm_hard_alarm(cm, STAT_LIMIT_SWITCH_HIT) ELSE cm
    /\ UNCHANGED <<board, cs, env>>
    /\ UNCHANGED tc_vars

SystemAssertions ==
    /\ At("_system_assertions")
    /\ Dispatched(_system_assertions(env))
    /\ cm' = IF _system_assertions(env) # STAT_OK
             THEN cm_hard_alarm(cm, _system_assertions(env)) ELSE cm
    /\ UNCHANGED <<board, cs, env>>
    /\ UNCHANGED tc_vars

\* a callback of another module: any status
ExternalCallback ==
    /\ board = "tinyg"
    /\ HsmList[hsm_pc] \in ExternalCallbacks
    /\ \E status \in ExternalStatus : Dispatched(status)
    /\ UNCHANGED <<board, cm, cs, env>>
    /\ UNCHANGED tc_vars

SyncToPlanner ==
    /\ At("_sync_to_planner")
    /\ \E available \in PlannerAvailable :
         /\ env' = [env EXCEPT !.planner_buffers_available = available]
         /\ Dispatched(_sync_to_planner(available))
    /\ UNCHANGED <<board, cm, cs>>
    /\ UNCHANGED tc_vars

SyncToTxBuffer ==
    /\ At("_sync_to_tx_buffer")
    /\ \E count \in TxBufcount :
         /\ env' = [env EXCEPT !.tx_bufcount = count]
         /\ Dispatched(_sync_to_tx_buffer(count))
    /\ UNCHANGED <<board, cm, cs>>
    /\ UNCHANGED tc_vars

\* _command_dispatch(): xio_gets() gives `gets`; a line that was read is parsed
\* and executed, which may raise or clear a soft alarm
CommandDispatch ==
    /\ At("_command_dispatch")
    /\ \E gets \in ExternalStatus :
         /\ Dispatched(gets)
         /\ IF gets = STAT_OK
            THEN \E ms \in IF cm.machine_state = MACHINE_SHUTDOWN
                           THEN {MACHINE_SHUTDOWN}
                           ELSE {MACHINE_READY, MACHINE_ALARM} :
                   cm' = [cm EXCEPT !.machine_state = ms]
            ELSE UNCHANGED cm
    /\ UNCHANGED <<board, cs, env>>
    /\ UNCHANGED tc_vars

NormalIdler ==
    /\ At("_normal_idler")
    /\ Dispatched(_normal_idler)
    /\ UNCHANGED <<board, cm, cs, env>>
    /\ UNCHANGED tc_vars

\* interrupts and faults between two dispatched functions
RequestHardReset ==
    /\ board = "tinyg"
    /\ ~cs.hard_reset_requested
    /\ cs' = [cs EXCEPT !.hard_reset_requested = TRUE]
    /\ UNCHANGED <<board, cm, env, hsm_pc, hsm_log, hsm_status>>
    /\ UNCHANGED tc_vars

RequestBootloader ==
    /\ board = "tinyg"
    /\ ~cs.bootloader_requested
    /\ cs' = [cs EXCEPT !.bootloader_requested = TRUE]
    /\ UNCHANGED <<board, cm, env, hsm_pc, hsm_log, hsm_status>>
    /\ UNCHANGED tc_vars

LimitSwitchISR ==
    /\ board = "tinyg"
    /\ ~env.limit_switch_thrown
    /\ env' = [env EXCEPT !.limit_switch_thrown = TRUE]
    /\ UNCHANGED <<board, cm, cs, hsm_pc, hsm_log, hsm_status>>
    /\ UNCHANGED tc_vars

MemoryCorruption ==
    /\ board = "tinyg"
    /\ env.memory_intact
    /\ env' = [env EXCEPT !.memory_intact = FALSE]
    /\ UNCHANGED <<board, cm, cs, hsm_pc, hsm_log, hsm_status>>
    /\ UNCHANGED tc_vars

NextHsm ==
    \/ HardResetHandler \/ BootloaderHandler \/ ShutdownIdler
    \/ LimitSwitchHandler \/ SystemAssertions \/ ExternalCallback
    \/ SyncToPlanner \/ SyncToTxBuffer \/ CommandDispatch \/ NormalIdler
    \/ RequestHardReset \/ RequestBootloader \/ LimitSwitchISR
    \/ MemoryCorruption

(***************************************************************************)
(* Specification.                                                          *)
(***************************************************************************)
Init ==
    /\ board \in {"tc", "tinyg"}
    /\ InitTc
    /\ InitHsm

Next == NextTc \/ NextHsm

Spec == Init /\ [][Next]_vars

\* frequencies (Hz) and duty cycles (percent) of the PWM tests
PwmFreqs  == {100, 250, 500, 1000, 2500, 5000, 10000, 50000}
PwmDuties == {0, 5, 10, 20, 50, 75, 99, 100, 101, 1000}

\* pwm_init()
PwmInit == board = "pwm" /\ InitTc /\ InitHsm

\* pwm_set_freq(freq); tc_log names the call and its argument
PwmSetFreq ==
    /\ board = "pwm"
    /\ \E freq \in PwmFreqs :
         /\ Set(pwm_set_freq(Cur, freq))
         /\ tc_log' = <<"pwm_set_freq", ToString(freq)>>
    /\ UNCHANGED <<board, tc_status, handlers>>
    /\ UNCHANGED hsm_vars

\* pwm_set_duty(duty)
PwmSetDuty ==
    /\ board = "pwm"
    /\ \E duty \in PwmDuties, ub \in CastOutcomes :
         /\ Set(pwm_set_duty(Cur, duty * PID_SCALE, ub))
         /\ tc_log' = <<"pwm_set_duty", ToString(duty)>>
    /\ UNCHANGED <<board, tc_status, handlers>>
    /\ UNCHANGED hsm_vars

PwmNext == PwmSetFreq \/ PwmSetDuty

\* the PWM on its own, as the PWM tests of device_unit_tests() drive it
PwmSpec == PwmInit /\ [][PwmNext]_vars

\* temperatures pid_calculate() is called with: far below, around and far
\* above the set point
PidTemperatures == {0, 139, 140, 141, 400}

\* pid_init()
PidInit == board = "pid" /\ InitTc /\ InitHsm

\* pid_calculate(setpoint, temperature)
PidCalculate ==
    /\ board = "pid"
    /\ \E setpoint \in Setpoints, temperature \in PidTemperatures :
         LET m2 == pid_calculate(Cur, setpoint, temperature)
         IN  /\ Abs(m2.pid.integral) <= MaxIntegral
             /\ pid' = m2.pid
    /\ UNCHANGED <<board, device, reg, heater, sensor, tc_log, tc_status, handlers>>
    /\ UNCHANGED hsm_vars

\* pid_reset()
PidReset ==
    /\ board = "pid"
    /\ pid' = pid_reset(Cur).pid
    /\ UNCHANGED <<board, device, reg, heater, sensor, tc_log, tc_status, handlers>>
    /\ UNCHANGED hsm_vars

PidNext == PidCalculate \/ PidReset

\* the PID on its own, as device_unit_tests() drives it: any sequence of
\* pid_calculate() and pid_reset() after pid_init()
PidSpec == PidInit /\ [][PidNext]_vars

\* main() of tinyg_tc.c: after the initializations it turns the heater on and
\* calls _controller() forever, while the timer interrupts
MainInit == Init /\ board = "tc"

MainNext == TimerISR \/ Controller \/ HeaterOn

\* the timer keeps overflowing and main() keeps calling _controller(), which
\* gets to tick_callback() after every overflow
MainSpec ==
    /\ MainInit
    /\ [][MainNext]_vars
    /\ WF_vars(TimerISR)
    /\ WF_vars(TickPass)

(***************************************************************************)
(* Properties.                                                             *)
(***************************************************************************)
\* the first n functions of the dispatch list of _controller_HSM()
HsmPrefix(n) == SubSeq(HsmList, 1, n)

\* a step in which _controller_HSM() invokes a function
HsmInvokes == hsm_log' # hsm_log /\ hsm_log' # <<>>

\* C1 (tinyg_tc.c): a pass of _controller() invokes kinen_callback() first and
\* tick_callback() second; tick_callback() is invoked exactly when
\* kinen_callback() returned something other than SC_EAGAIN.
TcDispatchOrder ==
    /\ tc_log \in {<<>>, <<"kinen_callback">>, <<"kinen_callback", "tick_callback">>}
    /\ Len(tc_status) = Len(tc_log)
    /\ Len(tc_log) = 1 => tc_status[1] = SC_EAGAIN
    /\ Len(tc_log) = 2 => tc_status[1] # SC_EAGAIN

\* C1 (controller.cpp): the functions invoked in a pass of _controller_HSM()
\* are the first functions of the list, in list order
HsmLogIsPrefix == hsm_log = HsmPrefix(Len(hsm_log))

\* C1 (controller.cpp): after a function that returned STAT_EAGAIN (or after
\* the last of the list) the next function invoked is the first of the list,
\* in a new pass; after any other status it is the next one of the list, in
\* the same pass
HsmDispatchStep ==
    HsmInvokes =>
        IF hsm_log = <<>> \/ hsm_status = STAT_EAGAIN \/ Len(hsm_log) = HsmLen
        THEN hsm_log' = HsmPrefix(1)
        ELSE hsm_log' = HsmPrefix(Len(hsm_log) + 1)

\* C1 (controller.cpp): the function _controller_HSM() invokes next is the
\* one after the last invoked, unless that one returned STAT_EAGAIN or was the
\* last of the list: then it is the first of the list
HsmNextInvoked ==
    hsm_pc = IF hsm_log = <<>> \/ hsm_status = STAT_EAGAIN \/ Len(hsm_log) = HsmLen
             THEN 1 ELSE Len(hsm_log) + 1

\* C1: in one scheduler pass the poll functions are invoked in list order; as
\* soon as one returns EAGAIN no later function is invoked in that pass, and
\* after every other status the next function of the list is invoked.
C1_DispatchOrder ==
    /\ [](TcDispatchOrder /\ HsmLogIsPrefix /\ HsmNextInvoked)
    /\ [][HsmDispatchStep]_vars

\* C1 witness: a pass of _controller_HSM() that a callback in the middle of the
\* list ended with STAT_EAGAIN
C1_Witness ==
    /\ Len(hsm_log) = HsmIndex("mp_plan_hold_callback")
    /\ hsm_status = STAT_EAGAIN
    /\ hsm_pc = 1

ShutdownIdlerIndex == HsmIndex("_shutdown_idler")

\* C2: _shutdown_idler() returns STAT_EAGAIN and ends the pass when the machine
\* state is MACHINE_SHUTDOWN, and returns STAT_OK, letting the pass go on to
\* _limit_switch_handler(), when it is not
ShutdownIdlerStep ==
    (hsm_pc = ShutdownIdlerIndex /\ HsmInvokes) =>
        IF cm.machine_state = MACHINE_SHUTDOWN
        THEN hsm_status' = STAT_EAGAIN /\ hsm_pc' = 1
        ELSE hsm_status' = STAT_OK /\ hsm_pc' = ShutdownIdlerIndex + 1

\* C2: a pass that runs while the machine state is MACHINE_SHUTDOWN invokes the
\* hard-reset handler, the boot loader handler and _shutdown_idler(), in this
\* order, and nothing after them
ShutdownPassStep ==
    (cm.machine_state = MACHINE_SHUTDOWN /\ hsm_pc <= ShutdownIdlerIndex) =>
        /\ hsm_pc' <= ShutdownIdlerIndex
        /\ HsmInvokes => hsm_log' = HsmPrefix(hsm_pc)

\* C2: while the machine state is MACHINE_SHUTDOWN every pass of
\* _controller_HSM() still invokes the hard-reset handler and the boot loader
\* handler, then _shutdown_idler() returns STAT_EAGAIN and no function listed
\* after it is invoked; when the machine state is not MACHINE_SHUTDOWN,
\* _shutdown_idler() returns STAT_OK and does not block the pass.
C2_ShutdownIdlerBlocks == [][ShutdownIdlerStep /\ ShutdownPassStep]_vars

\* C2 witness: a pass in MACHINE_SHUTDOWN that _shutdown_idler() has ended
C2_Witness ==
    /\ cm.machine_state = MACHINE_SHUTDOWN
    /\ hsm_log = HsmPrefix(ShutdownIdlerIndex)
    /\ hsm_status = STAT_EAGAIN
    /\ hsm_pc = 1

\* the passes of the model lose no state by running on ReadsFor only
ReadsForCoversReads ==
    device.tick_flag =>
        \A reads \in Reads : \E steady \in ReadsFor(Cur) :
            sensor_callback(Cur, reads) = sensor_callback(Cur, steady)

\* C3: once the sensor has shut down for bad readings while the heater is
\* heating, the heater does not remain in HEATER_HEATING: a later heater poll
\* takes it out of that state. (A property of MainSpec.)
C3_SensorFaultShutsHeaterDown ==
    (/\ sensor.state = SENSOR_SHUTDOWN
     /\ sensor.code = SENSOR_READING_FAILED_BAD_READINGS
     /\ heater.state = HEATER_HEATING) ~> (heater.state # HEATER_HEATING)

\* a state from which the next pass of _controller() that gets to
\* tick_callback() runs tick_10ms() and tick_100ms()
HeaterPollState ==
    board = "tc" /\ device.tick_flag /\ device.tick_100ms_count = 1

\* the state in which that pass calls heater_callback(): sensor_callback() has
\* run on the samples `reads`
BeforeHeaterPoll(reads) ==
    [tick_10ms([Cur EXCEPT !.device.tick_flag = FALSE], reads)
        EXCEPT !.device.tick_100ms_count = TICK_100MS_RELOAD]

\* the heater poll finds the heater heating and the sensor with data, so it
\* goes on to regulate and to test the timeouts
PollRegulates(m) ==
    m.heater.state = HEATER_HEATING /\ sensor_get_state(m) = SENSOR_HAS_DATA

\* the elapsed time the poll compares with the timeouts: the timer after the
\* poll has advanced it
Elapsed(m) == m.heater.regulation_timer + 1

\* C4: a heater poll that finds the heater heating, a measured temperature
\* below HEATER_AMBIENT_TEMPERATURE and the elapsed time past
\* HEATER_AMBIENT_TIMEOUT leaves the heater in HEATER_SHUTDOWN with code
\* HEATER_AMBIENT_TIMED_OUT, the PWM output off and the sensor in SENSOR_OFF.
C4_AmbientTimeoutShutsDown ==
    HeaterPollState =>
        \A reads \in ReadsFor(Cur), ub \in CastOutcomes :
            LET m1 == BeforeHeaterPoll(reads)
                m2 == heater_callback(m1, ub)
            IN  (/\ PollRegulates(m1)
                 /\ sensor_get_temperature(m1) < HEATER_AMBIENT_TEMPERATURE
                 /\ Elapsed(m1) > HEATER_AMBIENT_TIMEOUT)
                => /\ m2.heater.state = HEATER_SHUTDOWN
                   /\ m2.heater.code = HEATER_AMBIENT_TIMED_OUT
                   /\ m2.reg.OCR2B = PWM_DUTY_OFF
                   /\ m2.sensor.state = SENSOR_OFF

\* C4 witness: the pass that just ran the heater poll shut the heater down on
\* the ambient timeout
C4_Witness ==
    /\ handlers = <<"tick_10ms", "tick_100ms">>
    /\ heater.state = HEATER_SHUTDOWN
    /\ heater.code = HEATER_AMBIENT_TIMED_OUT
    /\ heater.temperature < HEATER_AMBIENT_TEMPERATURE
    /\ heater.regulation_timer > HEATER_AMBIENT_TIMEOUT
    /\ reg.OCR2B = PWM_DUTY_OFF
    /\ sensor.state = SENSOR_OFF

\* a step that re-initializes the heater, as heater_init() does
ReInitialized ==
    /\ heater' = heater_init_value
    /\ sensor' = sensor_init_value
    /\ pid' = pid_init_value

C6_FaultCodeNamesCause ==
    HeaterPollState =>
        \A reads \in ReadsFor(Cur), ub \in CastOutcomes :
            LET m1 == BeforeHeaterPoll(reads)
                m2 == heater_callback(m1, ub)
                t  == sensor_get_temperature(m1)
                ambient    == /\ t < HEATER_AMBIENT_TEMPERATURE
                              /\ Elapsed(m1) > HEATER_AMBIENT_TIMEOUT
                regulation == /\ ~ambient
                              /\ t < m1.heater.setpoint
                              /\ Elapsed(m1) > HEATER_REGULATION_TIMEOUT
            IN  IF PollRegulates(m1)
                THEN /\ ambient <=> /\ m2.heater.state = HEATER_SHUTDOWN
                                    /\ m2.heater.code = HEATER_AMBIENT_TIMED_OUT
                     /\ regulation <=> /\ m2.heater.state = HEATER_SHUTDOWN
                                       /\ m2.heater.code = HEATER_REGULATION_TIMED_OUT
                     /\ m2.heater.state \in {HEATER_SHUTDOWN, HEATER_HEATING}
                     /\ m2.heater.state = HEATER_HEATING => m2.heater.code = m1.heater.code
                ELSE /\ m2.heater.state = m1.heater.state
                     /\ m2.heater.code = m1.heater.code

\* C6 witness: the pass that just ran the heater poll shut the heater down on
\* the regulation timeout, at a temperature no longer below ambient
C6_Witness ==
    /\ handlers = <<"tick_10ms", "tick_100ms">>
    /\ heater.state = HEATER_SHUTDOWN
    /\ heater.code = HEATER_REGULATION_TIMED_OUT
    /\ heater.temperature >= HEATER_AMBIENT_TEMPERATURE
    /\ heater.temperature < heater.setpoint
    /\ heater.regulation_timer > HEATER_REGULATION_TIMEOUT

\* a sensor poll in this state takes a sample that is not the first of its
\* period, so the sample goes through the variance test
SensorRetests ==
    /\ sensor.state \notin {SENSOR_OFF, SENSOR_SHUTDOWN}
    /\ sensor.code # SENSOR_READING_COMPLETE
    /\ sensor.samples # 0

\* every sample of the attempts is outside the variance range
AllOutOfVariance(reads) ==
    \A k \in DOMAIN reads : ~within_variance(reads[k], sensor.previous_temp)

\* C7: a sensor poll whose sample fails the variance test on every attempt of
\* the retry budget leaves the sensor in SENSOR_SHUTDOWN with code
\* SENSOR_READING_FAILED_BAD_READINGS and adds nothing to the accumulator or
\* the sample count; in SENSOR_SHUTDOWN a sensor poll changes nothing.
C7_RetryExhaustionShutsSensorDown ==
    /\ SensorRetests =>
         \A reads \in Reads :
            AllOutOfVariance(reads) =>
                LET m2 == sensor_callback(Cur, reads)
                IN  /\ m2.sensor.state = SENSOR_SHUTDOWN
                    /\ m2.sensor.code = SENSOR_READING_FAILED_BAD_READINGS
                    /\ m2.sensor.accumulator = sensor.accumulator
                    /\ m2.sensor.samples = sensor.samples
    /\ sensor.state = SENSOR_SHUTDOWN =>
         \A reads \in Reads : sensor_callback(Cur, reads) = Cur

\* C7 witness: the sensor poll of the last pass shut the sensor down in the
\* middle of a reading
C7_Witness ==
    /\ handlers = <<"tick_10ms">>
    /\ sensor.state = SENSOR_SHUTDOWN
    /\ sensor.code = SENSOR_READING_FAILED_BAD_READINGS
    /\ sensor.samples >= 1
    /\ sensor.accumulator = sensor.previous_temp

\* C8: a heater poll of a running heater that finds the sensor in
\* SENSOR_HAS_DATA restarts the reading: the sensor is left out of
\* SENSOR_HAS_DATA with no sample counted, and the sensor poll that follows
\* takes the first sample of a new reading.
C8_StartReadingRestartsSampling ==
    HeaterPollState =>
        \A reads \in ReadsFor(Cur), ub \in CastOutcomes :
            LET m1 == BeforeHeaterPoll(reads)
                m2 == heater_callback(m1, ub)
            IN  (heater_is_on(m1) /\ sensor_get_state(m1) = SENSOR_HAS_DATA
                                  /\ heater_is_on(m2))
                => /\ sensor_get_state(m2) # SENSOR_HAS_DATA
                   /\ m2.sensor.samples = 0
                   /\ \A next \in Reads :
                        sensor_callback(m2, next).sensor.samples = 1

\* a step that turns the heater on: only heater_on() does it
HeaterTurnedOn ==
    /\ heater.state \notin {HEATER_HEATING, HEATER_AT_TARGET}
    /\ heater'.state \in {HEATER_HEATING, HEATER_AT_TARGET}

\* C9: every heater_on() that takes effect leaves the sensor enabled, also
\* after a heater_off() had put it in SENSOR_OFF.
C9_HeaterOnEnablesSensor == [][HeaterTurnedOn => sensor'.state # SENSOR_OFF]_vars

\* C10: every heater_on() that takes effect leaves the elapsed timer at zero.
C10_HeaterOnZeroesTimer == [][HeaterTurnedOn => heater'.regulation_timer = 0]_vars

\* set points a heater_on() may be called with while the heater is on
AnySetpoints == Setpoints \cup {200}

\* C11: heater_on(setpoint) called while the heater is in HEATER_HEATING or
\* HEATER_AT_TARGET changes nothing: heater state, set point, timer, PID
\* integral and previous error, sensor and PWM registers are as before.
C11_HeaterOnWhileOnIsNoop ==
    heater.state \in {HEATER_HEATING, HEATER_AT_TARGET} =>
        \A setpoint \in AnySetpoints, ub \in CastOutcomes :
            heater_on(Cur, setpoint, ub) = Cur

\* C11 witness: a heating heater that has regulated, so that a heater_on()
\* taking effect would show in the timer, the PID and the registers
C11_Witness ==
    /\ heater.state = HEATER_HEATING
    /\ heater.regulation_timer > 0
    /\ pid.integral # 0
    /\ pid.prev_error # 0
    /\ sensor.state = SENSOR_HAS_DATA

Range(f) == {f[i] : i \in DOMAIN f}

\* tick_callback() on a pending tick, whatever the ADC delivers
ConsumeTick(m) ==
    tick_callback([m EXCEPT !.device.tick_flag = TRUE],
                  CHOOSE reads \in SteadyReads : TRUE, 0)

\* no run of consumed ticks is followed further than this
MaxRun == 2 * TICK_100MS_RELOAD * TICK_1SEC_RELOAD

\* the number of ticks consumed from state m up to and including the first
\* one that runs `handler`, n ticks being consumed already (0: none within
\* MaxRun)
RECURSIVE TicksTo(_, _, _)
TicksTo(m, handler, n) ==
    LET r == ConsumeTick(m)
    IN  IF handler \in Range(r.handlers) THEN n + 1
        ELSE IF n >= MaxRun THEN 0
        ELSE TicksTo(r.m, handler, n + 1)

\* what tick_callback() does in the current state
TickCallbackStep ==
    \A reads \in ReadsFor(Cur), ub \in CastsFor(Cur) :
        LET r == tick_callback(Cur, reads, ub)
        IN  IF device.tick_flag = FALSE
            THEN r.status = SC_NOOP /\ r.handlers = <<>> /\ r.m = Cur
            ELSE /\ r.status = SC_OK
                 /\ r.m.device.tick_flag = FALSE
                 /\ r.handlers # <<>> /\ r.handlers[1] = "tick_10ms"
                 /\ r.handlers \in {<<"tick_10ms">>, <<"tick_10ms", "tick_100ms">>,
                                    <<"tick_10ms", "tick_100ms", "tick_1sec">>}

\* C12: tick_callback() returns SC_NOOP, runs no handler and changes nothing
\* when the tick flag is clear; when it is set, it clears it, runs tick_10ms()
\* and returns SC_OK. After a tick that ran tick_100ms() the next one to run it
\* is the TICK_100MS_RELOAD-th consumed tick, and after a tick that ran
\* tick_1sec() the next one to run it is the
\* (TICK_100MS_RELOAD * TICK_1SEC_RELOAD)-th; the first runs after boot come
\* at the same distances.
C12_TickCadences ==
    /\ TickCallbackStep
    /\ device.tick_100ms_count \in 1..TICK_100MS_RELOAD
    /\ device.tick_1sec_count \in 1..TICK_1SEC_RELOAD
    /\ device.tick_100ms_count = TICK_100MS_RELOAD =>
         /\ TicksTo(Cur, "tick_100ms", 0) = TICK_100MS_RELOAD
         /\ device.tick_1sec_count = TICK_1SEC_RELOAD =>
              TicksTo(Cur, "tick_1sec", 0) = TICK_100MS_RELOAD * TICK_1SEC_RELOAD
    /\ "tick_100ms" \in Range(handlers) =>
         device.tick_100ms_count = TICK_100MS_RELOAD
    /\ "tick_1sec" \in Range(handlers) =>
         /\ device.tick_100ms_count = TICK_100MS_RELOAD
         /\ device.tick_1sec_count = TICK_1SEC_RELOAD

\* C12 witness: the pass just made consumed the tick that ran all three
\* handlers
C12_Witness ==
    /\ tc_log = <<"kinen_callback", "tick_callback">>
    /\ tc_status[2] = SC_OK
    /\ handlers = <<"tick_10ms", "tick_100ms", "tick_1sec">>
    /\ device.tick_flag = FALSE

\* C13: a tick flag set by the timer interrupt is cleared by tick_callback()
\* before the next interrupt: the interrupt never fires on a flag that is
\* still set, so that no tick is lost.
C13_NoInterruptOnPendingTick == device.tick_flag => ~ENABLED TimerISR

\* C14: heater_on() is the only operation that takes the heater into
\* HEATER_HEATING, and it does so with pid.integral and pid.prev_error at
\* zero, whatever the PID computed before; while the heater is in
\* HEATER_HEATING or HEATER_AT_TARGET, heater_on() leaves the PID as it is
\* (pid_reset() is not run).
C14_PidResetAtCycleStart ==
    /\ \A setpoint \in AnySetpoints, ub \in CastOutcomes :
         LET m2 == heater_on(Cur, setpoint, ub)
         IN  IF heater.state \in {HEATER_HEATING, HEATER_AT_TARGET}
             THEN m2.pid = pid
             ELSE /\ m2.heater.state = HEATER_HEATING
                  /\ m2.pid.integral = 0
                  /\ m2.pid.prev_error = 0
    /\ heater.state # HEATER_HEATING =>
         /\ \A reads \in ReadsFor(Cur), ub \in CastsFor(Cur) :
              tick_callback(Cur, reads, ub).m.heater.state # HEATER_HEATING
         /\ \A ub \in CastOutcomes :
              heater_off(Cur, HEATER_OFF, HEATER_OK, ub).heater.state # HEATER_HEATING
         /\ heater_init(Cur).heater.state # HEATER_HEATING

\* C14 witness: heater_on() has started a new cycle after a cycle in which the
\* PID computed: the error and the timer of that cycle are still there, the
\* integral and the previous error are zero
C14_Witness ==
    /\ heater.state = HEATER_HEATING
    /\ heater.regulation_timer > 0
    /\ pid.error # 0
    /\ pid.integral = 0
    /\ pid.prev_error = 0

\* C15 (a property of PidSpec): after any sequence of pid_calculate() calls
\* pid.output lies between the output limits, and so does the value the next
\* call stores and returns, whatever the error: far above the upper limit,
\* inside the limits or below the lower one
C15_PidOutputWithinLimits ==
    /\ pid.output \in PID_MIN_OUTPUT..PID_MAX_OUTPUT
    /\ \A setpoint \in AnySetpoints, temperature \in PidTemperatures :
         LET m2 == pid_calculate(Cur, setpoint, temperature)
         IN  /\ m2.pid.output \in PID_MIN_OUTPUT..PID_MAX_OUTPUT
             /\ pid_return(Cur, m2) = m2.pid.output

\* the lower limit has acted on a negative error after the upper one was
\* reached by the integral
C15_Witness ==
    /\ board = "pid"
    /\ pid.error < 0
    /\ pid.integral > 0
    /\ pid.output = PID_MIN_OUTPUT

\* C16 (a property of PidSpec): a call of pid_calculate() adds the error (one
\* dt of it) to the integral when |error| is above PID_EPSILON and leaves the
\* integral alone otherwise; every call leaves the error in prev_error
C16_IntegralGatedByEpsilon ==
    \A setpoint \in AnySetpoints, temperature \in PidTemperatures :
        LET error == setpoint - temperature
            m2    == pid_calculate(Cur, setpoint, temperature)
        IN  /\ pid.state = PID_ON
            /\ Abs(error) * PID_EPSILON_SCALE > PID_EPSILON =>
                   m2.pid.integral = pid.integral + error
            /\ Abs(error) * PID_EPSILON_SCALE <= PID_EPSILON =>
                   m2.pid.integral = pid.integral
            /\ m2.pid.prev_error = error

\* a call with an error of one degree has left a grown integral as it was
C16_Witness ==
    /\ board = "pid"
    /\ pid.error = -1
    /\ pid.prev_error = -1
    /\ pid.integral # 0

\* duty cycles above 100 percent
OverDuties == {d \in PwmDuties : d > 100}

\* the compare register pwm_set_duty(duty) leaves, duty in percent
DutyCompare(duty, ub) == pwm_set_duty(Cur, duty * PID_SCALE, ub).reg.OCR2B

\* C17 as stated (a property of PwmSpec): duty 0 turns the output fully off
\* (compare value 255, never matched), duty 100 fully on (compare value 0),
\* and a duty above 100 leaves the output as duty 0 does, not as duty 100 does
C17_DutyAbove100IsFullyOff ==
    \A ub \in CastOutcomes :
        /\ DutyCompare(0, ub) = PWM_DUTY_OFF
        /\ DutyCompare(100, ub) = 0
        /\ \A duty \in OverDuties :
             /\ DutyCompare(duty, ub) = DutyCompare(0, ub)
             /\ DutyCompare(duty, ub) # DutyCompare(100, ub)

\* C17 amended (a property of PwmSpec): duty 0 turns the output fully off,
\* duty 100 fully on, and a duty above 100 leaves the output as duty 100
\* does (fully on), not as duty 0 does
C17_DutyAbove100IsFullyOn ==
    \A ub \in CastOutcomes :
        /\ DutyCompare(0, ub) = PWM_DUTY_OFF
        /\ DutyCompare(100, ub) = 0
        /\ \A duty \in OverDuties :
             /\ DutyCompare(duty, ub) = DutyCompare(100, ub)
             /\ DutyCompare(duty, ub) # DutyCompare(0, ub)

\* pwm_set_duty(1000) after pwm_set_freq(1000) has left the compare register
\* of a fully-on output
C17_Witness ==
    /\ board = "pwm"
    /\ tc_log = <<"pwm_set_duty", "1000">>
    /\ device.pwm_freq = (F_CPU \div PWM_PRESCALE) \div PWM_FREQUENCY
    /\ reg.OCR2A = device.pwm_freq
    /\ reg.OCR2B = 0

\* runs of SENSOR_SAMPLES_PER_READING samples, each within the variance range
\* of the one before it
InVarianceRuns ==
    {run \in [1..SENSOR_SAMPLES_PER_READING -> SampleSet] :
        \A k \in 2..SENSOR_SAMPLES_PER_READING : within_variance(run[k], run[k - 1])}

\* the ADC reads of a poll that finds sample v
Steady(v) == [k \in 1..(SENSOR_RETRIES + 1) |-> v]

\* the state after the first n sensor polls of a run
RECURSIVE AfterPolls(_, _, _)
AfterPolls(m, run, n) ==
    IF n = 0 THEN m
    ELSE sensor_callback(AfterPolls(m, run, n - 1), Steady(run[n]))

RECURSIVE SumOf(_, _)
SumOf(run, n) == IF n = 0 THEN 0 ELSE SumOf(run, n - 1) + run[n]

\* a reading has just completed in sensor record s
ReadingDone(s) ==
    s.code \in {SENSOR_READING_COMPLETE, SENSOR_READING_FAILED_DISCONNECTED,
                SENSOR_READING_FAILED_NO_POWER}

\* C18: with the sensor enabled and no sample counted, a run of in-variance
\* samples completes the reading on exactly the SENSOR_SAMPLES_PER_READING-th
\* sensor poll: the polls before it leave the filtered temperature and the
\* sensor state as they were, and each poll takes one sample
C18_ReadingCompletesOnLastSample ==
    (sensor.state \notin {SENSOR_OFF, SENSOR_SHUTDOWN} /\ sensor.samples = 0) =>
        \A run \in InVarianceRuns :
            /\ \A n \in 1..(SENSOR_SAMPLES_PER_READING - 1) :
                 LET s == AfterPolls(Cur, run, n).sensor
                 IN  /\ s.samples = n
                     /\ s.accumulator = SumOf(run, n)
                     /\ s.temperature = sensor.temperature
                     /\ s.state = sensor.state
                     /\ ~ReadingDone(s)
            /\ LET s == AfterPolls(Cur, run, SENSOR_SAMPLES_PER_READING).sensor
               IN  /\ s.samples = SENSOR_SAMPLES_PER_READING
                   /\ s.accumulator = SumOf(run, SENSOR_SAMPLES_PER_READING)
                   /\ ReadingDone(s)

\* the sensor record s holds a reading completed on the mean of its samples
ClassifiedOnMean(s) ==
    /\ s.temperature * s.samples <= s.accumulator
    /\ s.accumulator < (s.temperature + 1) * s.samples
    /\ IF s.accumulator > SENSOR_DISCONNECTED_TEMPERATURE * s.samples
       THEN s.code = SENSOR_READING_FAILED_DISCONNECTED /\ s.state = SENSOR_HAS_NO_DATA
       ELSE IF s.accumulator < SENSOR_NO_POWER_TEMPERATURE * s.samples
       THEN s.code = SENSOR_READING_FAILED_NO_POWER /\ s.state = SENSOR_HAS_NO_DATA
       ELSE s.code = SENSOR_READING_COMPLETE /\ s.state = SENSOR_HAS_DATA

\* C19: a sensor poll that completes a reading stores the mean of the samples
\* accumulated since the reading started (here its floor) and classifies the
\* reading on that mean: disconnected above SENSOR_DISCONNECTED_TEMPERATURE,
\* no power below SENSOR_NO_POWER_TEMPERATURE, both with SENSOR_HAS_NO_DATA,
\* and SENSOR_HAS_DATA with SENSOR_READING_COMPLETE otherwise; the sensor is
\* never in SENSOR_HAS_DATA with a temperature outside the two thresholds
C19_ReadingIsClassifiedMean ==
    /\ sensor.state = SENSOR_HAS_DATA =>
          sensor.temperature \in
              SENSOR_NO_POWER_TEMPERATURE..SENSOR_DISCONNECTED_TEMPERATURE
    /\ \A reads \in SteadyReads :
          LET s == sensor_callback(Cur, reads).sensor
          IN  (s.samples # sensor.samples /\ s.samples >= SENSOR_SAMPLES_PER_READING)
                  => /\ s.accumulator =
                          (IF sensor.samples = 0 THEN 0 ELSE sensor.accumulator)
                              + reads[1]
                     /\ ClassifiedOnMean(s)
    /\ (sensor.state \notin {SENSOR_OFF, SENSOR_SHUTDOWN}
          /\ sensor.code # SENSOR_READING_COMPLETE /\ sensor.samples = 0) =>
          \A run \in InVarianceRuns :
              LET s == AfterPolls(Cur, run, SENSOR_SAMPLES_PER_READING).sensor
              IN  /\ s.accumulator = SumOf(run, SENSOR_SAMPLES_PER_READING)
                  /\ ClassifiedOnMean(s)

\* a reading has completed with data on a mean that is not its last sample
C19_Witness ==
    /\ sensor.state = SENSOR_HAS_DATA
    /\ sensor.code = SENSOR_READING_COMPLETE
    /\ sensor.samples = SENSOR_SAMPLES_PER_READING
    /\ sensor.temperature # sensor.previous_temp
    /\ sensor.temperature = sensor.accumulator \div sensor.samples

\* C20: a heater poll that finds the heater in HEATER_OFF or HEATER_SHUTDOWN
\* changes nothing; one that finds the heater on and the sensor without data
\* only restarts the sample count: heater state, code, temperature and timer,
\* the PID and the PWM registers stay as they were
C20_HeaterPollWithoutDataIsIdle ==
    HeaterPollState =>
        \A reads \in ReadsFor(Cur), ub \in CastOutcomes :
            LET m1 == BeforeHeaterPoll(reads)
                m2 == heater_callback(m1, ub)
            IN  /\ m1.heater.state \in {HEATER_OFF, HEATER_SHUTDOWN} => m2 = m1
                /\ (m1.heater.state \in {HEATER_HEATING, HEATER_AT_TARGET}
                        /\ m1.sensor.state # SENSOR_HAS_DATA)
                    => /\ m2.heater = m1.heater
                       /\ m2.pid = m1.pid
                       /\ m2.reg = m1.reg
                       /\ m2.device = m1.device
                       /\ m2.sensor = [m1.sensor EXCEPT !.samples = 0]

\* a heater poll has found the heater heating and the sensor disconnected
C20_Witness ==
    /\ board = "tc"
    /\ Len(handlers) >= 2
    /\ handlers[2] = "tick_100ms"
    /\ heater.state = HEATER_HEATING
    /\ heater.code = HEATER_OK
    /\ sensor.state = SENSOR_HAS_NO_DATA
    /\ sensor.code = SENSOR_READING_FAILED_DISCONNECTED
    /\ sensor.samples = 0

\* C21: a heater poll that finds the heater heating and a measured temperature
\* at or above the setpoint moves the heater to HEATER_AT_TARGET, one that
\* finds it at target and the temperature below the setpoint moves it back to
\* HEATER_HEATING, and a poll of a heater at target tests the two timeouts as
\* a poll of a heating heater does
C21_AtTargetReachedAtSetpoint ==
    HeaterPollState =>
        \A reads \in ReadsFor(Cur), ub \in CastOutcomes :
            LET m1 == BeforeHeaterPoll(reads)
                m2 == heater_callback(m1, ub)
                at_target == [m1 EXCEPT !.heater.state = HEATER_AT_TARGET]
            IN  sensor_get_state(m1) = SENSOR_HAS_DATA =>
                /\ (m1.heater.state = HEATER_HEATING
                       /\ sensor_get_temperature(m1) >= m1.heater.setpoint)
                   => m2.heater.state = HEATER_AT_TARGET
                /\ (m1.heater.state = HEATER_AT_TARGET
                       /\ sensor_get_temperature(m1) < m1.heater.setpoint)
                   => m2.heater.state \in {HEATER_HEATING, HEATER_SHUTDOWN}
                /\ (m1.heater.state = HEATER_HEATING
                       /\ m2.heater.state = HEATER_SHUTDOWN)
                   => heater_callback(at_target, ub).heater.state = HEATER_SHUTDOWN

\* the first of the samples reads[1], reads[2], ... that lies within the
\* variance range of previous_temp, 0 if there is none
FirstWithin(reads, previous_temp) ==
    LET good == {k \in DOMAIN reads : within_variance(reads[k], previous_temp)}
    IN  IF good = {} THEN 0 ELSE CHOOSE k \in good : \A j \in good : k <= j

\* C22: a sample that is not the first of its reading is taken from the
\* initial ADC read and up to SENSOR_RETRIES re-reads: the first of them
\* within the variance range of the last accepted sample is returned, the
\* last permitted re-read included, and the fault value is returned only when
\* all of them are out of range
C22_LastRetryIsAccepted ==
    (device.tick_flag /\ sensor.samples > 0) =>
        \A reads \in Reads :
            LET r == _sensor_sample(Cur, reads, FALSE)
                k == FirstWithin(reads, sensor.previous_temp)
            IN  IF k = 0 THEN r[1] = HOTTER_THAN_THE_SUN
                ELSE r[1] = reads[k] /\ r[2] = reads[k]

\* C23: every heater poll that finds the heater heating advances the
\* regulation timer by one heater tick, with or without sensor data, unless
\* it shuts the heater down
C23_TimerAdvancesOnEveryPoll ==
    HeaterPollState =>
        \A reads \in ReadsFor(Cur), ub \in CastOutcomes :
            LET m1 == BeforeHeaterPoll(reads)
                m2 == heater_callback(m1, ub)
            IN  m1.heater.state = HEATER_HEATING =>
                    \/ m2.heater.state = HEATER_SHUTDOWN
                    \/ m2.heater.regulation_timer = m1.heater.regulation_timer + 1

\* samples above HEATER_OVERHEAT_TEMPERATURE and below the disconnect threshold
HotSamples == {HEATER_OVERHEAT_TEMPERATURE + 20}

\* C24: a heater poll that finds the heater on and a measured temperature
\* above HEATER_OVERHEAT_TEMPERATURE leaves the heater in HEATER_SHUTDOWN with
\* the PWM output off
C24_OverheatShutsDown ==
    (heater.state \in {HEATER_HEATING, HEATER_AT_TARGET}
        /\ sensor.state \notin {SENSOR_OFF, SENSOR_SHUTDOWN}
        /\ sensor.code # SENSOR_READING_COMPLETE /\ sensor.samples = 0) =>
        \A run \in [1..SENSOR_SAMPLES_PER_READING -> HotSamples], ub \in CastOutcomes :
            LET m1 == AfterPolls(Cur, run, SENSOR_SAMPLES_PER_READING)
                m2 == heater_callback(m1, ub)
            IN  (sensor_get_state(m1) = SENSOR_HAS_DATA
                    /\ sensor_get_temperature(m1) > HEATER_OVERHEAT_TEMPERATURE)
                => /\ m2.heater.state = HEATER_SHUTDOWN
                   /\ m2.reg.OCR2B = PWM_DUTY_OFF

LastInvoked == IF hsm_log = <<>> THEN "none" ELSE hsm_log[Len(hsm_log)]

\* the pass under way has got past function f of the list
PassedBeyond(f) ==
    \/ Len(hsm_log) > HsmIndex(f)
    \/ Len(hsm_log) = HsmIndex(f) /\ hsm_pc = HsmIndex(f) + 1

\* C26: a pass of _controller_HSM() gets to _command_dispatch() only when
\* _sync_to_planner() found at least PLANNER_BUFFER_HEADROOM planner buffers
\* and _sync_to_tx_buffer() found the TX buffer count below
\* XOFF_TX_LO_WATER_MARK in that pass; a sync function that finds otherwise
\* returns STAT_EAGAIN and ends the pass
C26_CommandReadNeedsHeadroom ==
    board = "tinyg" =>
        /\ PassedBeyond("_sync_to_planner") =>
               env.planner_buffers_available >= PLANNER_BUFFER_HEADROOM
        /\ PassedBeyond("_sync_to_tx_buffer") =>
               env.tx_bufcount < XOFF_TX_LO_WATER_MARK
        /\ (hsm_pc = HsmIndex("_command_dispatch")
               \/ "_command_dispatch" \in Range(hsm_log))
           => /\ env.planner_buffers_available >= PLANNER_BUFFER_HEADROOM
              /\ env.tx_bufcount < XOFF_TX_LO_WATER_MARK
        /\ (LastInvoked = "_sync_to_planner"
               /\ env.planner_buffers_available < PLANNER_BUFFER_HEADROOM)
           => hsm_status = STAT_EAGAIN /\ hsm_pc = 1
        /\ (LastInvoked = "_sync_to_tx_buffer"
               /\ env.tx_bufcount >= XOFF_TX_LO_WATER_MARK)
           => hsm_status = STAT_EAGAIN /\ hsm_pc = 1

\* a pass has read a command after both sync functions let it through
C26_Witness ==
    /\ LastInvoked = "_command_dispatch"
    /\ hsm_status = STAT_OK
    /\ env.planner_buffers_available = PLANNER_BUFFER_HEADROOM
    /\ env.tx_bufcount = XOFF_TX_LO_WATER_MARK - 1

\* C27 (a property of PwmSpec): pwm_set_duty() leaves the TOP register at the
\* value the preceding pwm_set_freq() gave it, clamped or not, for every duty
C27_SetDutyKeepsTop ==
    (board = "pwm" /\ tc_log # <<>> /\ tc_log[1] = "pwm_set_freq") =>
        \A duty \in PwmDuties, ub \in CastOutcomes :
            pwm_set_duty(Cur, duty * PID_SCALE, ub).reg.OCR2A = reg.OCR2A

\* C28: while the heater is in HEATER_SHUTDOWN the sensor is in SENSOR_OFF and
\* the duty register holds the fully-off value of pwm_set_duty(0); no sensor
\* poll, heater poll or tick handler changes the sensor state, the filtered
\* temperature or the PWM registers
C28_ShutdownIsQuiescent ==
    heater.state = HEATER_SHUTDOWN =>
        /\ sensor.state = SENSOR_OFF
        /\ reg.OCR2B = PWM_DUTY_OFF
        /\ \A reads \in Reads : sensor_callback(Cur, reads) = Cur
        /\ \A ub \in CastOutcomes :
             /\ heater_callback(Cur, ub) = Cur
             /\ \A reads \in SteadyReads :
                  LET m2 == tick_callback([Cur EXCEPT !.device.tick_flag = TRUE],
                                          reads, ub).m
                  IN  /\ m2.heater = heater
                      /\ m2.sensor = sensor
                      /\ m2.reg = reg

\* a tick that ran the sensor poll alone has passed with the heater shut down
C28_Witness ==
    /\ board = "tc"
    /\ heater.state = HEATER_SHUTDOWN
    /\ heater.code = HEATER_AMBIENT_TIMED_OUT
    /\ handlers = <<"tick_10ms">>
    /\ tc_log = <<"kinen_callback", "tick_callback">>
    /\ sensor.state = SENSOR_OFF
    /\ reg.OCR2B = PWM_DUTY_OFF

\* C29: the sample count of the sensor stays between 0 and
\* SENSOR_SAMPLES_PER_READING
C29_SampleCountWithinReading ==
    sensor.samples \in 0..SENSOR_SAMPLES_PER_READING

====
